---------------------------- MODULE Spec2Model ----------------------------
(***************************************************************************)
(* Feature extraction engine of Phishing-Detection-with-BERT: the          *)
(* HTMLFeatures and URLFeatures classes of src/features.py and their       *)
(* earlier revisions under src/ANALYSIS/.                                  *)
(*                                                                         *)
(* A Python str is a sequence of one-character strings.  Indices handed to *)
(* and returned by the Py* operators are Python's (0-based, -1 = absent).  *)
(* A float rounded to 3 decimals is the integer of its thousandths         *)
(* (1.585 is 1585).  An accessor that divides returns a record             *)
(* [exc, val]: exc is "none" or the name of the exception raised.          *)
(***************************************************************************)
EXTENDS Integers, Sequences, FiniteSets, TLC

VARIABLES
    hpc,                   \* HTMLFeatures instance: "new" | "ready" | "raised"
    hrev,                  \* which file the class comes from: "features" | "analysis"
    html,                  \* self.html
    pq,                    \* self.pq
    suspicious_functions,  \* self.suspicious_functions
    hret,                  \* what the call in progress returned to the caller
    upc,                   \* URLFeatures instance: "new" | "ready"
    urev,                  \* "features" | "analysis"
    url,                   \* self.url
    urlparsed,             \* self.urlparsed
    shortening_services,   \* self.shortening_services
    uret                   \* what the call in progress returned to the caller

hvars == <<hpc, hrev, html, pq, suspicious_functions, hret>>
uvars == <<upc, urev, url, urlparsed, shortening_services, uret>>
vars == <<hpc, hrev, html, pq, suspicious_functions, hret,
          upc, urev, url, urlparsed, shortening_services, uret>>

---------------------------------------------------------------------------
(* Bounds of the input space.                                              *)

\* path segments appended after the host of a generated URL
MaxPathSegs == 2
\* '&'-separated pieces of the query string of a generated URL
MaxParams == 2
\* child elements under the root of a generated document
MaxChildren == 2

---------------------------------------------------------------------------
(* Python str and list primitives.                                         *)

Revisions == {"features", "analysis"}

Digits == {"0", "1", "2", "3", "4", "5", "6", "7", "8", "9"}

LowerOf == [c \in {"A","B","C","D","E","F","G","H","I","J","K","L","M","N",
                   "O","P","Q","R","S","T","U","V","W","X","Y","Z"} |->
             CASE c = "A" -> "a" [] c = "B" -> "b" [] c = "C" -> "c"
               [] c = "D" -> "d" [] c = "E" -> "e" [] c = "F" -> "f"
               [] c = "G" -> "g" [] c = "H" -> "h" [] c = "I" -> "i"
               [] c = "J" -> "j" [] c = "K" -> "k" [] c = "L" -> "l"
               [] c = "M" -> "m" [] c = "N" -> "n" [] c = "O" -> "o"
               [] c = "P" -> "p" [] c = "Q" -> "q" [] c = "R" -> "r"
               [] c = "S" -> "s" [] c = "T" -> "t" [] c = "U" -> "u"
               [] c = "V" -> "v" [] c = "W" -> "w" [] c = "X" -> "x"
               [] c = "Y" -> "y" [] c = "Z" -> "z"]

UpperCase == DOMAIN LowerOf
LowerCase == {LowerOf[c] : c \in UpperCase}

\* str.isupper() of one character
isupper(c) == c \in UpperCase

\* str.isdigit() of one character
isdigit(c) == c \in Digits

\* str.isalpha() and str.isascii() of one character
isalpha(c) == c \in UpperCase \cup LowerCase

\* str.lower()
lower(s) == [i \in 1..Len(s) |-> IF s[i] \in UpperCase THEN LowerOf[s[i]] ELSE s[i]]

\* set(s)
CharSet(s) == {s[i] : i \in 1..Len(s)}

\* s.count(c) for a single character c; also len([i for i in s if i == c])
Count(s, c) == Cardinality({i \in 1..Len(s) : s[i] = c})

\* s[a:b] for 0 <= a, b
Slice(s, a, b) == SubSeq(s, a + 1, IF b > Len(s) THEN Len(s) ELSE b)

\* whether sub occurs in s at 0-based index i
OccursAt(s, sub, i) ==
    /\ i >= 0
    /\ i + Len(sub) <= Len(s)
    /\ \A k \in 1..Len(sub) : s[i + k] = sub[k]

SetMin(S) == CHOOSE x \in S : \A y \in S : x <= y
SetMax(S) == CHOOSE x \in S : \A y \in S : x >= y

\* s.find(sub, start)
PyFind(s, sub, start) ==
    LET first(hits) == IF hits = {} THEN -1 ELSE SetMin(hits)
    IN  first({i \in start..(Len(s) - Len(sub)) : OccursAt(s, sub, i)})

\* s.rfind(sub)
PyRFind(s, sub) ==
    LET last(hits) == IF hits = {} THEN -1 ELSE SetMax(hits)
    IN  last({i \in 0..(Len(s) - Len(sub)) : OccursAt(s, sub, i)})

\* sub in s
Contains(s, sub) == PyFind(s, sub, 0) >= 0

\* sorted(S) for a finite set of integers
Sorted(S) ==
    [k \in 1..Cardinality(S) |->
       CHOOSE x \in S : Cardinality({y \in S : y <= x}) = k]

\* s.split(c) for a one-character separator c: the pieces between the
\* occurrences of c
PySplit(s, c) ==
    LET pieces(at) ==
            [k \in 1..(Len(at) + 1) |->
               SubSeq(s, IF k = 1 THEN 1 ELSE at[k - 1] + 1,
                         IF k = Len(at) + 1 THEN Len(s) ELSE at[k] - 1)]
    IN  pieces(Sorted({i \in 1..Len(s) : s[i] = c}))

\* s.split(c, 1)
PySplit1(s, c) ==
    LET at(i) == IF i < 0 THEN <<s>> ELSE <<Slice(s, 0, i), Slice(s, i + 1, Len(s))>>
    IN  at(PyFind(s, <<c>>, 0))

\* sum(xs[lo..hi]), by halves
RECURSIVE SumRange(_, _, _)
SumRange(xs, lo, hi) ==
    IF lo > hi THEN 0
    ELSE IF lo = hi THEN xs[lo]
    ELSE LET mid == (lo + hi) \div 2
         IN  SumRange(xs, lo, mid) + SumRange(xs, mid + 1, hi)

\* sum(xs) of a list of integers
PySum(xs) == SumRange(xs, 1, Len(xs))

\* the concatenation of a list of strings
RECURSIVE Concat(_)
Concat(ss) == IF ss = <<>> THEN <<>> ELSE Head(ss) \o Concat(Tail(ss))

\* sep.join(ss)
RECURSIVE PyJoin(_, _)
PyJoin(sep, ss) ==
    IF ss = <<>> THEN <<>>
    ELSE IF Len(ss) = 1 THEN ss[1]
    ELSE ss[1] \o sep \o PyJoin(sep, Tail(ss))

\* the lists of length 0..n over S
SeqsUpTo(S, n) == UNION {[1..k -> S] : k \in 0..n}

Ok(v) == [exc |-> "none", val |-> v]
Raise(e) == [exc |-> e, val |-> 0]

\* a / b: ZeroDivisionError when b = 0.  The quotient stays exact as the
\* pair <<a, b>> until round() turns it into thousandths.
PyDiv(a, b) == IF b = 0 THEN Raise("ZeroDivisionError") ELSE Ok(<<a, b>>)

\* round(a / b) to the nearest integer for a >= 0, b > 0; a tie goes to the
\* even neighbour, as Python's round() does for an exactly representable half
\* (a half that binary floating point cannot represent rounds either way;
\* the modelled inputs produce none)
RoundDiv(a, b) ==
    LET q == a \div b
        r == a % b
    IN  IF 2 * r > b THEN q + 1
        ELSE IF 2 * r < b THEN q
        ELSE IF q % 2 = 0 THEN q ELSE q + 1

\* round(a / b, 3), in thousandths
Round3(a, b) == RoundDiv(a * 1000, b)

\* log(k) / log(2.0) in millionths, k = 1..256
Log2Micro ==
    <<0, 1000000, 1584963, 2000000, 2321928, 2584963, 2807355, 3000000,
      3169925, 3321928, 3459432, 3584963, 3700440, 3807355, 3906891, 4000000,
      4087463, 4169925, 4247928, 4321928, 4392317, 4459432, 4523562, 4584963,
      4643856, 4700440, 4754888, 4807355, 4857981, 4906891, 4954196, 5000000,
      5044394, 5087463, 5129283, 5169925, 5209453, 5247928, 5285402, 5321928,
      5357552, 5392317, 5426265, 5459432, 5491853, 5523562, 5554589, 5584963,
      5614710, 5643856, 5672425, 5700440, 5727920, 5754888, 5781360, 5807355,
      5832890, 5857981, 5882643, 5906891, 5930737, 5954196, 5977280, 6000000,
      6022368, 6044394, 6066089, 6087463, 6108524, 6129283, 6149747, 6169925,
      6189825, 6209453, 6228819, 6247928, 6266787, 6285402, 6303781, 6321928,
      6339850, 6357552, 6375039, 6392317, 6409391, 6426265, 6442943, 6459432,
      6475733, 6491853, 6507795, 6523562, 6539159, 6554589, 6569856, 6584963,
      6599913, 6614710, 6629357, 6643856, 6658211, 6672425, 6686501, 6700440,
      6714246, 6727920, 6741467, 6754888, 6768184, 6781360, 6794416, 6807355,
      6820179, 6832890, 6845490, 6857981, 6870365, 6882643, 6894818, 6906891,
      6918863, 6930737, 6942515, 6954196, 6965784, 6977280, 6988685, 7000000,
      7011227, 7022368, 7033423, 7044394, 7055282, 7066089, 7076816, 7087463,
      7098032, 7108524, 7118941, 7129283, 7139551, 7149747, 7159871, 7169925,
      7179909, 7189825, 7199672, 7209453, 7219169, 7228819, 7238405, 7247928,
      7257388, 7266787, 7276124, 7285402, 7294621, 7303781, 7312883, 7321928,
      7330917, 7339850, 7348728, 7357552, 7366322, 7375039, 7383704, 7392317,
      7400879, 7409391, 7417853, 7426265, 7434628, 7442943, 7451211, 7459432,
      7467606, 7475733, 7483816, 7491853, 7499846, 7507795, 7515700, 7523562,
      7531381, 7539159, 7546894, 7554589, 7562242, 7569856, 7577429, 7584963,
      7592457, 7599913, 7607330, 7614710, 7622052, 7629357, 7636625, 7643856,
      7651052, 7658211, 7665336, 7672425, 7679480, 7686501, 7693487, 7700440,
      7707359, 7714246, 7721099, 7727920, 7734710, 7741467, 7748193, 7754888,
      7761551, 7768184, 7774787, 7781360, 7787903, 7794416, 7800900, 7807355,
      7813781, 7820179, 7826548, 7832890, 7839204, 7845490, 7851749, 7857981,
      7864186, 7870365, 7876517, 7882643, 7888743, 7894818, 7900867, 7906891,
      7912889, 7918863, 7924813, 7930737, 7936638, 7942515, 7948367, 7954196,
      7960002, 7965784, 7971544, 7977280, 7982994, 7988685, 7994353, 8000000>>

\* get_entropy with the minus sign before sum(...) left out
get_entropy_unnegated(text) ==
    LET probs(t) == [c \in CharSet(t) |-> PyDiv(Count(t, c), Len(t))]
        terms(t, ps, log2) ==
            [i \in 1..Len(t) |->
               IF \E j \in 1..(i - 1) : t[j] = t[i] THEN 0
               ELSE log2[Len(t)] * ps[t[i]].val[1]
                    - log2[ps[t[i]].val[1]] * ps[t[i]].val[1]]
        result(t, ps) ==
            IF \E c \in DOMAIN ps : ps[c].exc # "none"
            THEN Raise("ZeroDivisionError")
            ELSE IF DOMAIN ps = {} THEN Ok(0)
            ELSE Ok(0 - RoundDiv(PySum(terms(t, ps, Log2Micro)), Len(t) * 1000))
        of(t) == result(t, probs(t))
    IN  of(lower(text))

\* The entropy both classes compute (HTMLFeatures.__get_entropy,
\* URLFeatures.entropy): the division by len(text) is evaluated once per
\* distinct character, so not at all for the empty text.
\*   -sum(p * log2 p) = sum(k * (log2 n - log2 k)) / n,  p = k / n
get_entropy(text) ==
    LET probs(t) == [c \in CharSet(t) |-> PyDiv(Count(t, c), Len(t))]
        \* one term per distinct character, at its first occurrence
        terms(t, ps, log2) ==
            [i \in 1..Len(t) |->
               IF \E j \in 1..(i - 1) : t[j] = t[i] THEN 0
               ELSE log2[Len(t)] * ps[t[i]].val[1]
                    - log2[ps[t[i]].val[1]] * ps[t[i]].val[1]]
        result(t, ps) ==
            IF \E c \in DOMAIN ps : ps[c].exc # "none"
            THEN Raise("ZeroDivisionError")
            ELSE IF DOMAIN ps = {} THEN Ok(0)
            ELSE Ok(RoundDiv(PySum(terms(t, ps, Log2Micro)), Len(t) * 1000))
        of(t) == result(t, probs(t))
    IN  of(lower(text))

---------------------------------------------------------------------------
(* urllib.parse.urlparse, as the two URLFeatures constructors call it.     *)

scheme_chars == UpperCase \cup LowerCase \cup Digits \cup {"+", "-", "."}

\* uses_params without the empty scheme
uses_params_schemed ==
    { <<"f","t","p">>, <<"h","d","l">>,
      <<"p","r","o","s","p","e","r","o">>, <<"h","t","t","p">>,
      <<"i","m","a","p">>, <<"h","t","t","p","s">>, <<"s","h","t","t","p">>,
      <<"r","t","s","p">>, <<"r","t","s","p","s">>, <<"r","t","s","p","u">>,
      <<"s","i","p">>, <<"s","i","p","s">>, <<"m","m","s">>,
      <<"s","f","t","p">>, <<"t","e","l">> }

uses_params ==
    { <<>>, <<"f","t","p">>, <<"h","d","l">>,
      <<"p","r","o","s","p","e","r","o">>, <<"h","t","t","p">>,
      <<"i","m","a","p">>, <<"h","t","t","p","s">>, <<"s","h","t","t","p">>,
      <<"r","t","s","p">>, <<"r","t","s","p","s">>, <<"r","t","s","p","u">>,
      <<"s","i","p">>, <<"s","i","p","s">>, <<"m","m","s">>,
      <<"s","f","t","p">>, <<"t","e","l">> }

\* _splitnetloc(url, start): <<domain, rest>>
splitnetloc(u, start) ==
    LET at(delim) == <<Slice(u, start, delim), Slice(u, delim, Len(u))>>
        first(found) == at(IF found = {} THEN Len(u) ELSE SetMin(found))
    IN  first({PyFind(u, <<c>>, start) : c \in {"/", "?", "#"}} \ {-1})

\* url.lstrip(_WHATWG_C0_CONTROL_OR_SPACE)
lstrip_space(u) ==
    LET keep == {i \in 1..Len(u) : u[i] \notin {" ", "\t", "\r", "\n"}}
    IN  IF keep = {} THEN <<>> ELSE SubSeq(u, SetMin(keep), Len(u))

\* for b in _UNSAFE_URL_BYTES_TO_REMOVE: url = url.replace(b, "")
strip_unsafe(u) == SelectSeq(u, LAMBDA c : c \notin {"\t", "\r", "\n"})

\* urlsplit(url, scheme)
urlsplit(url0, scheme) ==
    LET \* url, query = url.split("?", 1), after url, fragment = url.split("#", 1)
        query(sch, netloc, f, q) ==
            [ scheme   |-> sch,
              netloc   |-> netloc,
              path     |-> q[1],
              query    |-> IF Len(q) = 2 THEN q[2] ELSE <<>>,
              fragment |-> IF Len(f) = 2 THEN f[2] ELSE <<>> ]
        fragment(sch, netloc, f) == query(sch, netloc, f, PySplit1(f[1], "?"))
        \* if url[:2] == "//": netloc, url = _splitnetloc(url, 2)
        split(sch, net, nl, u) ==
            fragment(sch, IF net THEN nl[1] ELSE <<>>,
                     PySplit1(IF net THEN nl[2] ELSE u, "#"))
        netloc(sch, u) ==
            split(sch, Slice(u, 0, 2) = <<"/", "/">>, splitnetloc(u, 2), u)
        \* i = url.find(":"); a scheme is a letter, then scheme_chars
        found(u, i, chars) ==
            IF i > 0 /\ u[1] \in chars.alpha /\ \A k \in 1..i : u[k] \in chars.scheme
            THEN netloc(lower(Slice(u, 0, i)), Slice(u, i + 1, Len(u)))
            ELSE netloc(scheme, u)
        stripped(u) ==
            found(u, PyFind(u, <<":">>, 0),
                  [alpha |-> UpperCase \cup LowerCase, scheme |-> scheme_chars])
    IN  stripped(strip_unsafe(lstrip_space(url0)))

\* _splitparams(url): <<url, params>>
splitparams(u) ==
    LET at(i) == IF i < 0 THEN <<u, <<>> >>
                 ELSE <<Slice(u, 0, i), Slice(u, i + 1, Len(u))>>
    IN  at(IF Contains(u, <<"/">>)
           THEN PyFind(u, <<";">>, PyRFind(u, <<"/">>))
           ELSE PyFind(u, <<";">>, 0))

\* urlparse(url, scheme)
urlparse(u, scheme) ==
    LET result(s, sp) ==
            [ scheme |-> s.scheme, netloc |-> s.netloc, path |-> sp[1],
              params |-> sp[2], query |-> s.query, fragment |-> s.fragment ]
        params(s) ==
            result(s, IF s.scheme \in uses_params /\ Contains(s.path, <<";">>)
                      THEN splitparams(s.path) ELSE <<s.path, <<>> >>)
    IN  params(urlsplit(u, scheme))

---------------------------------------------------------------------------
(* class URLFeatures.  self is [url, urlparsed, shortening_services].      *)

\* the alternatives of the shortening-service pattern, each a literal
\* (the only metacharacter the pattern uses is the escaped dot)
ShorteningServices ==
    <<
       <<"b","i","t",".","l","y">>,
       <<"g","o","o",".","g","l">>,
       <<"s","h","o","r","t","e",".","s","t">>,
       <<"g","o","2","l",".","i","n","k">>,
       <<"x",".","c","o">>,
       <<"o","w",".","l","y">>,
       <<"t",".","c","o">>,
       <<"t","i","n","y","u","r","l">>,
       <<"t","r",".","i","m">>,
       <<"i","s",".","g","d">>,
       <<"c","l","i",".","g","s">>,
       <<"y","f","r","o","g",".","c","o","m">>,
       <<"m","i","g","r","e",".","m","e">>,
       <<"f","f",".","i","m">>,
       <<"t","i","n","y",".","c","c">>,
       <<"u","r","l","4",".","e","u">>,
       <<"t","w","i","t",".","a","c">>,
       <<"s","u",".","p","r">>,
       <<"t","w","u","r","l",".","n","l">>,
       <<"s","n","i","p","u","r","l",".","c","o","m">>,
       <<"s","h","o","r","t",".","t","o">>,
       <<"B","u","d","U","R","L",".","c","o","m">>,
       <<"p","i","n","g",".","f","m">>,
       <<"p","o","s","t",".","l","y">>,
       <<"J","u","s","t",".","a","s">>,
       <<"b","k","i","t","e",".","c","o","m">>,
       <<"s","n","i","p","r",".","c","o","m">>,
       <<"f","i","c",".","k","r">>,
       <<"l","o","o","p","t",".","u","s">>,
       <<"d","o","i","o","p",".","c","o","m">>,
       <<"s","h","o","r","t",".","i","e">>,
       <<"k","l",".","a","m">>,
       <<"w","p",".","m","e">>,
       <<"r","u","b","y","u","r","l",".","c","o","m">>,
       <<"o","m",".","l","y">>,
       <<"t","o",".","l","y">>,
       <<"b","i","t",".","d","o">>,
       <<"t",".","c","o">>,
       <<"l","n","k","d",".","i","n">>,
       <<"d","b",".","t","t">>,
       <<"q","r",".","a","e">>,
       <<"a","d","f",".","l","y">>,
       <<"g","o","o",".","g","l">>,
       <<"b","i","t","l","y",".","c","o","m">>,
       <<"c","u","r",".","l","v">>,
       <<"t","i","n","y","u","r","l",".","c","o","m">>,
       <<"o","w",".","l","y">>,
       <<"b","i","t",".","l","y">>,
       <<"i","t","y",".","i","m">>,
       <<"q",".","g","s">>,
       <<"i","s",".","g","d">>,
       <<"p","o",".","s","t">>,
       <<"b","c",".","v","c">>,
       <<"t","w","i","t","t","h","i","s",".","c","o","m">>,
       <<"u",".","t","o">>,
       <<"j",".","m","p">>,
       <<"b","u","z","u","r","l",".","c","o","m">>,
       <<"c","u","t","t",".","u","s">>,
       <<"u",".","b","b">>,
       <<"y","o","u","r","l","s",".","o","r","g">>,
       <<"x",".","c","o">>,
       <<"p","r","e","t","t","y","l","i","n","k","p","r","o",".","c","o","m">>,
       <<"s","c","r","n","c","h",".","m","e">>,
       <<"f","i","l","o","o","p","s",".","i","n","f","o">>,
       <<"v","z","t","u","r","l",".","c","o","m">>,
       <<"q","r",".","n","e","t">>,
       <<"1","u","r","l",".","c","o","m">>,
       <<"t","w","e","e","z",".","m","e">>,
       <<"v",".","g","d">>,
       <<"t","r",".","i","m">>,
       <<"l","i","n","k",".","z","i","p",".","n","e","t">>
    >>

\* the default scheme each revision hands to urlparse
DefaultScheme(rev) == IF rev = "analysis" THEN <<"h","t","t","p">> ELSE <<>>

\* URLFeatures.__init__ of either revision
URLFeatures_init(rev, u) ==
    [ url                 |-> u,
      urlparsed           |-> urlparse(u, DefaultScheme(rev)),
      shortening_services |-> ShorteningServices ]

\* re.search(pattern, s) for an alternation of literals
re_search(alts, s) == \E k \in 1..Len(alts) : Contains(s, alts[k])

\* re.compile(r"^\d{1,3}\.\d{1,3}\.\d{1,3}\.\d{1,3}$").match(s) is not None:
\* group g of four starts at 0-based index i; each group takes 1 to 3 digits,
\* a "." follows each of the first three, and "$" wants the end of s or a
\* final newline after the fourth
RECURSIVE ip_match(_, _, _)
ip_match(s, i, g) ==
    \E n \in 1..3 :
       /\ i + n <= Len(s)
       /\ \A k \in 1..n : isdigit(s[i + k])
       /\ IF g < 4
          THEN /\ i + n < Len(s)
               /\ s[i + n + 1] = "."
               /\ ip_match(s, i + n + 1, g + 1)
          ELSE \/ i + n = Len(s)
               \/ i + n + 1 = Len(s) /\ s[Len(s)] = "\n"

entropy(self) == get_entropy(self.url)

length(self) == Len(self.url)

path_length(self) == Len(self.urlparsed.path)

host_length(self) == Len(self.urlparsed.netloc)

\* host_is_ip with the pattern's "$" left out: a prefix of the host matches
host_is_ip_unanchored(self) ==
    \E n \in 0..Len(self.urlparsed.netloc) :
       ip_match(SubSeq(self.urlparsed.netloc, 1, n), 0, 1)

host_is_ip(self) == ip_match(self.urlparsed.netloc, 0, 1)

has_port(self) ==
    LET str_isdigit(last) == last # <<>> /\ \A k \in 1..Len(last) : isdigit(last[k])
        port(parts) == Len(parts) > 1 /\ str_isdigit(parts[Len(parts)])
    IN  port(PySplit(self.urlparsed.netloc, ":"))

number_of_digits(self) ==
    Len(SelectSeq(self.url, isdigit))

\* number_of_parameters without its test for the empty query
number_of_parameters_unguarded(self) == Len(PySplit(self.urlparsed.query, "&"))

number_of_parameters(self) ==
    LET params == self.urlparsed.query
    IN  IF params = <<>> THEN 0 ELSE Len(PySplit(params, "&"))

is_encoded(self) == Contains(lower(self.url), <<"%">>)

num_encoded_char(self) == Count(self.url, "%")

number_of_subdirectories(self) == Len(PySplit(self.urlparsed.path, "/"))

number_of_periods(self) == Count(self.url, ".")

prefix_suffix_presence(self) == Contains(self.urlparsed.netloc, <<"-">>)

use_shortening_services(self) == re_search(self.shortening_services, self.url)

\* has_double_slash_in_wrong_position with find() for rfind()
has_double_slash_first(self) ==
    LET pos == PyFind(self.url, <<"/", "/">>, 0)
    IN  pos > 7

has_double_slash_in_wrong_position(self) ==
    LET pos == PyRFind(self.url, <<"/", "/">>)
    IN  pos > 7

has_haveat_sign(self) == Contains(self.url, <<"@">>)

has_client_in_string(self) == Contains(lower(self.url), <<"c","l","i","e","n","t">>)

has_admin_in_string(self) == Contains(lower(self.url), <<"a","d","m","i","n">>)

has_server_in_string(self) == Contains(lower(self.url), <<"s","e","r","v","e","r">>)

has_login_in_string(self) == Contains(lower(self.url), <<"l","o","g","i","n">>)

\* the accessors only src/ANALYSIS/URLFeatures.py has, or has under another name
scheme(self) ==
    LET s == self.urlparsed.scheme
    IN  IF s \in { <<"h","t","t","p","s">>, <<"h","t","t","p">>, <<"f","t","p">>,
                   <<"m","a","i","l","t","o">>, <<"f","i","l","e">>,
                   <<"t","e","l","n","e","t">> }
        THEN s ELSE <<"h","t","t","p">>

url_length(self) == Len(self.url)

number_of_fragments(self) ==
    LET frags == self.urlparsed.fragment
    IN  IF frags = <<>> THEN Len(PySplit(frags, "#")) - 1 ELSE 0

url_is_encoded(self) == Contains(lower(self.url), <<"%">>)

url_entropy(self) == get_entropy(self.url)

has_redirection(self) ==
    LET pos == PyRFind(self.url, <<"/", "/">>)
    IN  pos > 7

\* the public methods of each revision
URLAccessors(rev) ==
    IF rev = "features"
    THEN {"entropy", "length", "path_length", "host_length", "host_is_ip",
          "has_port", "number_of_digits", "number_of_parameters", "is_encoded",
          "num_encoded_char", "number_of_subdirectories", "number_of_periods",
          "prefix_suffix_presence", "use_shortening_services",
          "has_double_slash_in_wrong_position", "has_haveat_sign",
          "has_client_in_string", "has_admin_in_string",
          "has_server_in_string", "has_login_in_string"}
    ELSE {"scheme", "url_length", "path_length", "host_length", "host_is_ip",
          "has_port", "number_of_digits", "number_of_parameters",
          "number_of_fragments", "url_is_encoded", "num_encoded_char",
          "url_entropy", "number_of_subdirectories", "number_of_periods",
          "prefix_suffix_presence", "use_shortening_services",
          "has_redirection", "has_haveat_sign", "has_client_in_string",
          "has_admin_in_string", "has_server_in_string", "has_login_in_string"}

\* self.<acc>(): [exc, val]
URLCall(self, acc) ==
    CASE acc = "entropy"                  -> entropy(self)
      [] acc = "url_entropy"              -> url_entropy(self)
      [] acc = "length"                   -> Ok(length(self))
      [] acc = "url_length"               -> Ok(url_length(self))
      [] acc = "path_length"              -> Ok(path_length(self))
      [] acc = "host_length"              -> Ok(host_length(self))
      [] acc = "host_is_ip"               -> Ok(host_is_ip(self))
      [] acc = "has_port"                 -> Ok(has_port(self))
      [] acc = "number_of_digits"         -> Ok(number_of_digits(self))
      [] acc = "number_of_parameters"     -> Ok(number_of_parameters(self))
      [] acc = "number_of_fragments"      -> Ok(number_of_fragments(self))
      [] acc = "is_encoded"               -> Ok(is_encoded(self))
      [] acc = "url_is_encoded"           -> Ok(url_is_encoded(self))
      [] acc = "num_encoded_char"         -> Ok(num_encoded_char(self))
      [] acc = "number_of_subdirectories" -> Ok(number_of_subdirectories(self))
      [] acc = "number_of_periods"        -> Ok(number_of_periods(self))
      [] acc = "prefix_suffix_presence"   -> Ok(prefix_suffix_presence(self))
      [] acc = "use_shortening_services"  -> Ok(use_shortening_services(self))
      [] acc = "has_double_slash_in_wrong_position"
                                          -> Ok(has_double_slash_in_wrong_position(self))
      [] acc = "has_redirection"          -> Ok(has_redirection(self))
      [] acc = "has_haveat_sign"          -> Ok(has_haveat_sign(self))
      [] acc = "has_client_in_string"     -> Ok(has_client_in_string(self))
      [] acc = "has_admin_in_string"      -> Ok(has_admin_in_string(self))
      [] acc = "has_server_in_string"     -> Ok(has_server_in_string(self))
      [] acc = "has_login_in_string"      -> Ok(has_login_in_string(self))
      [] acc = "scheme"                   -> Ok(scheme(self))

\* the dict literal with the accessor of one row copied from the row before it
URLFeatureTableCopied ==
    << <<"use_shortening_service", "use_shortening_services">>,
       <<"prefix_suffix_presence", "prefix_suffix_presence">>,
       <<"has_double_slash", "has_double_slash_in_wrong_position">>,
       <<"has_haveat_sign", "has_haveat_sign">>,
       <<"has_port", "has_port">>,
       <<"has_admin_keyword", "has_admin_in_string">>,
       <<"has_server_keyword", "has_server_in_string">>,
       <<"has_login_keyword", "has_login_in_string">>,
       <<"has_client_keyword", "has_client_in_string">>,
       <<"host_is_ip", "host_is_ip">>,
       <<"is_encoded", "is_encoded">>,
       <<"length", "length">>,
       <<"path_length", "path_length">>,
       <<"host_length", "host_length">>,
       <<"entropy", "entropy">>,
       <<"digits_num", "number_of_digits">>,
       <<"subdirectories_num", "number_of_subdirectories">>,
       <<"periods_num", "number_of_subdirectories">>,
       <<"params_num", "number_of_parameters">> >>

\* the dict literal of URLFeatures.get_features, in source order:
\* <<key, accessor>>
URLFeatureTable ==
    << <<"use_shortening_service", "use_shortening_services">>,
       <<"prefix_suffix_presence", "prefix_suffix_presence">>,
       <<"has_double_slash", "has_double_slash_in_wrong_position">>,
       <<"has_haveat_sign", "has_haveat_sign">>,
       <<"has_port", "has_port">>,
       <<"has_admin_keyword", "has_admin_in_string">>,
       <<"has_server_keyword", "has_server_in_string">>,
       <<"has_login_keyword", "has_login_in_string">>,
       <<"has_client_keyword", "has_client_in_string">>,
       <<"host_is_ip", "host_is_ip">>,
       <<"is_encoded", "is_encoded">>,
       <<"length", "length">>,
       <<"path_length", "path_length">>,
       <<"host_length", "host_length">>,
       <<"entropy", "entropy">>,
       <<"digits_num", "number_of_digits">>,
       <<"subdirectories_num", "number_of_subdirectories">>,
       <<"periods_num", "number_of_periods">>,
       <<"params_num", "number_of_parameters">> >>

---------------------------------------------------------------------------
(* The URLs the model builds extractors on.                                *)

UrlPrefixes ==
    { <<>>, <<"h","t","t","p",":","/","/">>, <<"h","t","t","p","s",":","/","/">> }

UrlHosts ==
    { <<"a",".","c","o","m">>,
      <<"1",".","2",".","3",".","4">>,
      <<"1","0",".","2",".","3",".","4",":","8","0">>,
      <<"u","@","a","-","b",".","l","y",":","x">>,
      <<"1",".","2",".","3">>,
      <<"1",".","2",".","3",".","4","5","6","7">> }

UrlSegments == { <<>>, <<"b">> }

UrlParam == <<"x","=","1">>

UrlFragments == { <<>>, <<"#","f","&","g">> }

\* "/" before each segment
UrlPath(segs) == Concat([k \in 1..Len(segs) |-> <<"/">> \o segs[k]])

\* no query (n = -1), or "?" and n parameters joined by "&"
UrlQuery(n) ==
    IF n < 0 THEN <<>>
    ELSE <<"?">> \o PyJoin(<<"&">>, [k \in 1..n |-> UrlParam])

\* the URLs of the spec's section 8, one whose host ends in a newline, one
\* with capital letters and one with an encoded character; the empty URL
\* and a.com/b;c, whose path carries parameters under no scheme
ExampleHttpADoubleSlash == <<"h","t","t","p",":","/","/","a",".","c","o","m","/","/","b">>
ExampleHttpA == <<"h","t","t","p",":","/","/","a",".","c","o","m","/","b">>
ExampleIp == <<"h","t","t","p",":","/","/","1","9","2",".","1","6","8",".","0",".","1","/">>
ExampleHost == <<"h","t","t","p",":","/","/","e","x","a","m","p","l","e",".","c","o","m","/">>
ExampleQuery == <<"h","t","t","p",":","/","/","x",".","c","o","m","/","a","?","x","=","1","&","y","=","2">>
ExampleNewline == <<"h","t","t","p",":","/","/","1",".","2",".","3",".","4","\n">>
ExampleUpper == <<"H","T","T","P",":","/","/","A",".","c","o","m","/","L","o","g","i","n">>
ExampleEncoded == <<"h","t","t","p",":","/","/","a",".","c","o","m","/","a","%","2","0","b">>

UrlExamples ==
    { ExampleHttpADoubleSlash, ExampleHttpA, ExampleIp, ExampleHost,
      ExampleQuery, ExampleNewline, ExampleUpper, ExampleEncoded, <<>>,
      <<"a",".","c","o","m","/","b",";","c">> }

UrlInputs ==
    UrlExamples \cup
    { p \o h \o UrlPath(segs) \o UrlQuery(n) \o f :
        p \in UrlPrefixes, h \in UrlHosts,
        segs \in SeqsUpTo(UrlSegments, MaxPathSegs),
        n \in -1..MaxParams, f \in UrlFragments }

---------------------------------------------------------------------------
(* The URLFeatures instance and its callers.                               *)

NoRet == [op |-> "none", exc |-> "none", val |-> 0]

USelf == [url |-> url, urlparsed |-> urlparsed,
          shortening_services |-> shortening_services]

\* a keyword accessor that folds the case of self.url where it stands
URLAfterCallLowered(self, acc) ==
    IF acc \in {"has_client_in_string", "has_admin_in_string",
                "has_server_in_string", "has_login_in_string"}
    THEN [self EXCEPT !.url = lower(self.url)]
    ELSE self

\* What a call of accessor acc leaves in self: no accessor of URLFeatures
\* assigns to an attribute of self (text, host, params, ... are locals).
URLAfterCall(self, acc) == self

\* URLFeatures.get_features(): the accessors are called in the order of the
\* dict literal; the first that raises ends the call.  calls[a] counts the
\* invocations of accessor a.
URLFeatures_get_features(self) ==
    LET result(T, rets, bad, upto, accessors) ==
            [ op    |-> "get_features",
              exc   |-> IF bad = {} THEN "none" ELSE rets[upto].exc,
              val   |-> IF bad = {} THEN [k \in 1..Len(T) |-> <<T[k][1], rets[k].val>>]
                        ELSE <<>>,
              calls |-> [a \in accessors |->
                           Cardinality({k \in 1..upto : T[k][2] = a})] ]
        raised(T, rets, bad) ==
            result(T, rets, bad, IF bad = {} THEN Len(T) ELSE SetMin(bad),
                   URLAccessors("features") \cup URLAccessors("analysis"))
        called(T, rets) == raised(T, rets, {k \in 1..Len(T) : rets[k].exc # "none"})
        dict(T) == called(T, [k \in 1..Len(T) |-> URLCall(self, T[k][2])])
    IN  dict(URLFeatureTable)

UInit ==
    /\ upc = "new"
    /\ urev = "features"
    /\ url = <<>>
    /\ urlparsed = [scheme |-> <<>>, netloc |-> <<>>, path |-> <<>>,
                    params |-> <<>>, query |-> <<>>, fragment |-> <<>>]
    /\ shortening_services = <<>>
    /\ uret = NoRet

\* URLFeatures(u), from either revision; a run builds one extractor
UConstruct ==
    /\ upc = "new"
    /\ hpc = "new"
    /\ \E rev \in Revisions, u \in UrlInputs :
          LET built(self) ==
                  /\ urev' = rev
                  /\ url' = self.url
                  /\ urlparsed' = self.urlparsed
                  /\ shortening_services' = self.shortening_services
          IN  built(URLFeatures_init(rev, u))
    /\ upc' = "ready"
    /\ uret' = NoRet
    /\ UNCHANGED hvars

\* self.<acc>() for one accessor of the instance's revision
UAccessor ==
    /\ upc = "ready"
    /\ uret.op = "none"
    /\ \E acc \in URLAccessors(urev) :
          LET done(r, after) ==
                  /\ uret' = [op |-> acc, exc |-> r.exc, val |-> r.val]
                  /\ url' = after.url
                  /\ urlparsed' = after.urlparsed
                  /\ shortening_services' = after.shortening_services
          IN  done(URLCall(USelf, acc), URLAfterCall(USelf, acc))
    /\ UNCHANGED <<upc, urev>>
    /\ UNCHANGED hvars

\* self.get_features(); only src/features.py defines it
UGetFeatures ==
    /\ upc = "ready"
    /\ urev = "features"
    /\ uret.op = "none"
    /\ uret' = URLFeatures_get_features(USelf)
    /\ UNCHANGED <<upc, urev, url, urlparsed, shortening_services>>
    /\ UNCHANGED hvars

\* the caller takes the returned value; the instance is ready for the next call
UReturn ==
    /\ upc = "ready"
    /\ uret.op # "none"
    /\ uret' = NoRet
    /\ UNCHANGED <<upc, urev, url, urlparsed, shortening_services>>
    /\ UNCHANGED hvars

UNext == UConstruct \/ UAccessor \/ UGetFeatures \/ UReturn

---------------------------------------------------------------------------
(* PyQuery(html), as HTMLFeatures.__init__ calls it.                       *)
(*                                                                         *)
(* self.html is held as the list of its lexical tokens (start tag with its *)
(* attributes, character data, end tag); RawChars is the string itself.    *)
(* The parsed document is the list of its elements in document order, each *)
(* [tag, attrs, text, tail, parent] with parent = 0 for the root; a        *)
(* PyQuery selection is a list of indices into it.                         *)

OpenTok(tag, attrs) == [k |-> "open", tag |-> tag, attrs |-> attrs, s |-> <<>>]
TextTok(s) == [k |-> "text", tag |-> <<>>, attrs |-> <<>>, s |-> s]
CloseTok(tag) == [k |-> "close", tag |-> tag, attrs |-> <<>>, s |-> <<>>]

\* the characters of one token
RenderTok(t) ==
    CASE t.k = "open" ->
           <<"<">> \o t.tag
           \o Concat([a \in 1..Len(t.attrs) |->
                        <<" ">> \o t.attrs[a][1] \o <<"=", "\"">>
                        \o t.attrs[a][2] \o <<"\"">>])
           \o <<">">>
      [] t.k = "close" -> <<"<", "/">> \o t.tag \o <<">">>
      [] OTHER -> t.s

\* the str that self.html is
RawChars(toks) == Concat([i \in 1..Len(toks) |-> RenderTok(toks[i])])

HtmlWhitespace == {" ", "\t", "\f", "\n", "\r"}

IsBlank(s) == \A i \in 1..Len(s) : s[i] \in HtmlWhitespace

\* s.strip()
PyStrip(s) ==
    LET span(keep) == IF keep = {} THEN <<>> ELSE SubSeq(s, SetMin(keep), SetMax(keep))
    IN  span({i \in 1..Len(s) : s[i] \notin HtmlWhitespace})

\* s.split(): the maximal runs of non-whitespace characters
PyWords(s) ==
    LET IsWs(i) == i < 1 \/ i > Len(s) \/ s[i] \in HtmlWhitespace
        words(starts, ends) == [k \in 1..Len(starts) |-> SubSeq(s, starts[k], ends[k])]
    IN  words(Sorted({i \in 1..Len(s) : ~IsWs(i) /\ IsWs(i - 1)}),
              Sorted({i \in 1..Len(s) : ~IsWs(i) /\ IsWs(i + 1)}))

\* lxml.etree.fromstring(html): the tokens are fed to a stack of open
\* elements; ok is FALSE on what raises XMLSyntaxError (no root, a second
\* root, character data outside the root, an end tag that closes nothing or
\* another element, an element left open)
RECURSIVE xml_feed(_, _, _, _)
xml_feed(toks, i, nodes, stack) ==
    IF i > Len(toks)
    THEN [ok |-> stack = <<>> /\ nodes # <<>>, nodes |-> nodes]
    ELSE
      LET t   == toks[i]
          top == IF stack = <<>> THEN 0 ELSE stack[Len(stack)]
          kids == {j \in 1..Len(nodes) : nodes[j].parent = top}
      IN  CASE t.k = "open" ->
                 IF stack = <<>> /\ nodes # <<>>
                 THEN [ok |-> FALSE, nodes |-> nodes]
                 ELSE xml_feed(toks, i + 1,
                               Append(nodes, [tag |-> t.tag, attrs |-> t.attrs,
                                              text |-> <<>>, tail |-> <<>>,
                                              parent |-> top]),
                               Append(stack, Len(nodes) + 1))
            [] t.k = "text" ->
                 IF stack = <<>>
                 THEN IF IsBlank(t.s)
                      THEN xml_feed(toks, i + 1, nodes, stack)
                      ELSE [ok |-> FALSE, nodes |-> nodes]
                 ELSE IF kids = {}
                 THEN xml_feed(toks, i + 1,
                               [nodes EXCEPT ![top].text = @ \o t.s], stack)
                 ELSE xml_feed(toks, i + 1,
                               [nodes EXCEPT ![SetMax(kids)].tail = @ \o t.s], stack)
            [] OTHER ->
                 IF stack # <<>> /\ nodes[top].tag = t.tag
                 THEN xml_feed(toks, i + 1, nodes, SubSeq(stack, 1, Len(stack) - 1))
                 ELSE [ok |-> FALSE, nodes |-> nodes]

\* PyQuery(html): [exc, val].  pyquery's fromstring tries the XML parser
\* and, on XMLSyntaxError, lxml.html.fromstring: that one raises ParserError
\* ("Document is empty") on a str with nothing but whitespace, and returns the
\* single <p> the HTML parser wraps bare character data in.  Markup that is
\* not well-formed is outside the documents modelled.
PyQuery(toks) ==
    LET bare == \A i \in 1..Len(toks) : toks[i].k = "text"
        fromstring(x, data) ==
            IF x.ok THEN Ok(x.nodes)
            ELSE IF bare /\ IsBlank(data) THEN Raise("ParserError")
            ELSE Ok(<< [tag |-> <<"p">>, attrs |-> <<>>, text |-> PyStrip(data),
                        tail |-> <<>>, parent |-> 0] >>)
    IN  fromstring(xml_feed(toks, 1, <<>>, <<>>), RawChars(toks))

\* the children of element i, in document order
Children(nodes, i) ==
    SelectSeq([j \in 1..Len(nodes) |-> j], LAMBDA j : nodes[j].parent = i)

\* tag.attr(name): [has, val]; has is FALSE where Python gets None
Attr(el, name) ==
    LET get(hits) == IF hits = {} THEN [has |-> FALSE, val |-> <<>>]
                     ELSE [has |-> TRUE, val |-> el.attrs[SetMin(hits)][2]]
    IN  get({a \in 1..Len(el.attrs) : el.attrs[a][1] = name})

\* self.pq(selector): the elements of the document, root included, that
\* match, in document order
Select(nodes, Match(_)) ==
    SelectSeq([j \in 1..Len(nodes) |-> j], LAMBDA j : Match(nodes[j]))

\* self.pq.find(selector): as Select, but only below the root
Find(nodes, Match(_)) ==
    SelectSeq([j \in 1..Len(nodes) |-> j],
              LAMBDA j : nodes[j].parent # 0 /\ Match(nodes[j]))

\* the selectors the accessors use
IsTag(el, tag) == el.tag = tag
HasClass(el, name) ==
    LET among(ws) == \E k \in 1..Len(ws) : ws[k] = name
        has(c) == c.has /\ among(PyWords(c.val))
    IN  has(Attr(el, <<"c","l","a","s","s">>))
HasId(el, name) ==
    LET has(c) == c.has /\ c.val = name IN has(Attr(el, <<"i","d">>))
AttrEquals(el, attr, v) ==
    LET has(c) == c.has /\ c.val = v IN has(Attr(el, attr))
AttrStartsWith(el, attr, v) ==
    LET has(c) == c.has /\ OccursAt(c.val, v, 0) IN has(Attr(el, attr))

\* pyquery.text: the tags that do not break the line, and the separator
INLINE_TAGS ==
    { <<"a">>, <<"a","b","b","r">>, <<"a","c","r","o","n","y","m">>, <<"b">>,
      <<"b","d","o">>, <<"b","i","g">>, <<"b","r">>, <<"b","u","t","t","o","n">>,
      <<"c","i","t","e">>, <<"c","o","d","e">>, <<"d","f","n">>, <<"e","m">>,
      <<"i">>, <<"i","m","g">>, <<"i","n","p","u","t">>, <<"k","b","d">>,
      <<"l","a","b","e","l">>, <<"m","a","p">>, <<"o","b","j","e","c","t">>,
      <<"q">>, <<"s","a","m","p">>, <<"s","c","r","i","p","t">>,
      <<"s","e","l","e","c","t">>, <<"s","m","a","l","l">>, <<"s","p","a","n">>,
      <<"s","t","r","o","n","g">>, <<"s","u","b">>, <<"s","u","p">>,
      <<"t","e","x","t","a","r","e","a">>, <<"t","i","m","e">>, <<"t","t">>,
      <<"v","a","r">> }
SEPARATORS == { <<"b","r">> }

StrPart(s) == [k |-> "str", s |-> s]
NlPart == [k |-> "nl", s |-> <<>>]
SepPart == [k |-> "sep", s |-> <<>>]

\* pyquery.text.extract_text_array without the squashing and stripping
RECURSIVE text_array(_, _)
text_array(nodes, i) ==
    LET parts(el, kids, inline, sep) ==
            (IF sep THEN <<SepPart>> ELSE IF ~inline THEN <<NlPart>> ELSE <<>>)
            \o (IF el.text # <<>> THEN <<StrPart(el.text)>> ELSE <<>>)
            \o Concat([k \in 1..Len(kids) |->
                         text_array(nodes, kids[k])
                         \o (IF nodes[kids[k]].tail # <<>>
                             THEN <<StrPart(nodes[kids[k]].tail)>> ELSE <<>>)])
            \o (IF ~inline /\ ~sep THEN <<NlPart>> ELSE <<>>)
    IN  parts(nodes[i], Children(nodes, i),
              nodes[i].tag \in INLINE_TAGS, nodes[i].tag \in SEPARATORS)

\* _squash_artifical_nl: one artificial newline for each run of them
RECURSIVE squash_nl(_, _)
squash_nl(parts, last_nl) ==
    IF parts = <<>> THEN <<>>
    ELSE IF Head(parts).k # "nl" THEN <<Head(parts)>> \o squash_nl(Tail(parts), FALSE)
    ELSE IF ~last_nl THEN <<Head(parts)>> \o squash_nl(Tail(parts), TRUE)
    ELSE squash_nl(Tail(parts), TRUE)

\* _strip_artifical_nl: what precedes the first str and follows the last goes
\* (with no str at all, what pyquery keeps is whitespace that the final
\* strip() of extract_text removes)
strip_nl(parts) ==
    LET span(strs) == IF strs = {} THEN <<>> ELSE SubSeq(parts, SetMin(strs), SetMax(strs))
    IN  span({k \in 1..Len(parts) : parts[k].k = "str"})

\* squash_html_whitespace: each run of whitespace becomes one space
squash_ws(s) ==
    LET IsWs(i) == s[i] \in HtmlWhitespace
        squashed(keep) == [k \in 1..Len(keep) |-> IF IsWs(keep[k]) THEN " " ELSE s[keep[k]]]
    IN  squashed(SelectSeq([i \in 1..Len(s) |-> i],
                           LAMBDA i : ~IsWs(i) \/ i = Len(s) \/ ~IsWs(i + 1)))

\* _merge_original_parts: adjacent strs are joined, squashed and stripped;
\* an empty result is dropped
RECURSIVE merge_parts(_, _)
merge_parts(parts, buf) ==
    LET flush(item) == IF item # <<>> THEN <<StrPart(item)>> ELSE <<>>
    IN  IF parts = <<>> THEN flush(PyStrip(squash_ws(buf)))
        ELSE IF Head(parts).k = "str"
        THEN merge_parts(Tail(parts), buf \o Head(parts).s)
        ELSE flush(PyStrip(squash_ws(buf)))
             \o <<Head(parts)>> \o merge_parts(Tail(parts), <<>>)

\* pyquery.text.extract_text(dom)
extract_text(nodes, i) ==
    LET join(b) == PyStrip(Concat([k \in 1..Len(b) |->
                                     IF b[k].k = "str" THEN b[k].s ELSE <<"\n">>]))
        merged(a) == join(strip_nl(squash_nl(merge_parts(a, <<>>), FALSE)))
    IN  merged(strip_nl(squash_nl(text_array(nodes, i), FALSE)))

\* selection.text(): '' for no element, else the texts joined by a space
SelText(nodes, sel) ==
    PyJoin(<<" ">>, [k \in 1..Len(sel) |-> extract_text(nodes, sel[k])])

\* self.pq.text(): the selection that is the root
pq_text(nodes) == SelText(nodes, Select(nodes, LAMBDA el : el.parent = 0))

---------------------------------------------------------------------------
(* class HTMLFeatures.  self is [html, pq, suspicious_functions].          *)

SuspiciousFunctions ==
    << <<"e","v","a","l">>, <<"u","n","e","s","c","a","p","e">>, <<"d","o","c","u","m","e","n","t",".","w","r","i","t","e">>, <<"i","n","n","e","r","h","t","m","l">> >>

\* HTMLFeatures.__init__ of either revision: [exc, val]
HTMLFeatures_init(h) ==
    LET init(doc) ==
            IF doc.exc # "none" THEN Raise(doc.exc)
            ELSE Ok([ html                 |-> h,
                      pq                   |-> doc.val,
                      suspicious_functions |-> SuspiciousFunctions ])
    IN  init(PyQuery(h))

\* string.punctuation, but for the backquote (no modelled text holds one)
punctuation ==
    {"!", "\"", "#", "$", "%", "&", "'", "(", ")", "*", "+", ",", "-", ".",
     "/", ":", ";", "<", "=", ">", "?", "@", "[", "\\", "]", "^", "_",
     "{", "|", "}", "~"}

\* the characters \w matches
WordChars == UpperCase \cup LowerCase \cup Digits \cup {"_"}

Script == <<"s","c","r","i","p","t">>

Scripts(self) == Select(self.pq, LAMBDA el : IsTag(el, Script))

page_entropy(self) == get_entropy(pq_text(self.pq))

number_of_script_tags(self) == Len(Scripts(self))

length_of_html(self) == Len(pq_text(self.pq))

number_of_page_tokens(self) == Len(PyWords(lower(pq_text(self.pq))))

number_of_sentences(self) == Len(PySplit(pq_text(self.pq), "."))

number_of_punctuations(self) ==
    Len(SelectSeq(pq_text(self.pq),
                  LAMBDA i : i \in punctuation /\ i \notin {"<", ">", "/"}))

number_of_capitalizations(self) ==
    Len(SelectSeq(RawChars(self.html), isupper))

average_number_of_tokens_in_sentence(self) ==
    LET round(d) == IF d.exc # "none" THEN d ELSE Ok(Round3(d.val[1], d.val[2]))
        mean(sen_lens) == round(PyDiv(PySum(sen_lens), Len(sen_lens)))
        lens(sentences) ==
            mean([k \in 1..Len(sentences) |-> Len(PyWords(sentences[k]))])
    IN  lens(PySplit(pq_text(self.pq), "."))

number_of_html_tags(self) == Len(Select(self.pq, LAMBDA el : TRUE))

\* number_of_hidden_tags with one selection of the elements that match any
\* of the four selectors, in place of the sum of four selections
number_of_hidden_tags_distinct(self) ==
    Len(Select(self.pq,
               LAMBDA el : \/ HasClass(el, <<"h","i","d","d","e","n">>)
                           \/ HasId(el, <<"h","i","d","d","e","n">>)
                           \/ AttrEquals(el, <<"v","i","s","i","b","i","l","i","t","y">>, <<"n","o","n","e">>)
                           \/ AttrEquals(el, <<"d","i","s","p","l","a","y">>, <<"n","o","n","e">>)))

number_of_hidden_tags(self) ==
    LET hidden1 == Select(self.pq, LAMBDA el : HasClass(el, <<"h","i","d","d","e","n">>))
        hidden2 == Select(self.pq, LAMBDA el : HasId(el, <<"h","i","d","d","e","n">>))
        hidden3 == Select(self.pq, LAMBDA el : AttrEquals(el, <<"v","i","s","i","b","i","l","i","t","y">>, <<"n","o","n","e">>))
        hidden4 == Select(self.pq, LAMBDA el : AttrEquals(el, <<"d","i","s","p","l","a","y">>, <<"n","o","n","e">>))
        hidden  == hidden1 \o hidden2 \o hidden3 \o hidden4
    IN  Len(hidden)

number_iframes(self) ==
    LET iframes == Select(self.pq, LAMBDA el : IsTag(el, <<"i","f","r","a","m","e">>))
                   \o Select(self.pq, LAMBDA el : IsTag(el, <<"f","r","a","m","e">>))
    IN  Len(iframes)

number_objects(self) == Len(Select(self.pq, LAMBDA el : IsTag(el, <<"o","b","j","e","c","t">>)))

number_embeds(self) == Len(Select(self.pq, LAMBDA el : IsTag(el, <<"e","m","b","e","d">>)))

number_of_internal_hyperlinks(self) ==
    Len(Find(self.pq, LAMBDA el : IsTag(el, <<"a">>)
                                  /\ AttrStartsWith(el, <<"h","r","e","f">>, <<"/">>)))

number_of_external_hyperlinks(self) ==
    Len(Find(self.pq, LAMBDA el : IsTag(el, <<"a">>)
                                  /\ AttrStartsWith(el, <<"h","r","e","f">>, <<"h","t","t","p">>)))

number_of_whitespace(self) == Count(RawChars(self.html), " ")

number_of_included_elements(self) ==
    LET srcs(toi) == [k \in 1..Len(toi) |-> Attr(self.pq[toi[k]], <<"s","r","c">>)]
        truthy(toi) == Len(SelectSeq(srcs(toi), LAMBDA i : i.has /\ i.val # <<>>))
    IN  truthy(Scripts(self)
               \o Select(self.pq, LAMBDA el : IsTag(el, <<"i","f","r","a","m","e">>))
               \o Select(self.pq, LAMBDA el : IsTag(el, <<"f","r","a","m","e">>))
               \o Select(self.pq, LAMBDA el : IsTag(el, <<"e","m","b","e","d">>))
               \o Select(self.pq, LAMBDA el : IsTag(el, <<"f","o","r","m">>))
               \o Select(self.pq, LAMBDA el : IsTag(el, <<"o","b","j","e","c","t">>)))

\* number_of_double_documents without its tests for an absent tag
number_of_double_documents_unguarded(self) ==
    LET count(x, y, z) == (Len(x) - 1) + (Len(y) - 1) + (Len(z) - 1)
    IN  count(Select(self.pq, LAMBDA el : IsTag(el, <<"h","t","m","l">>)),
              Select(self.pq, LAMBDA el : IsTag(el, <<"b","o","d","y">>)),
              Select(self.pq, LAMBDA el : IsTag(el, <<"h","e","a","d">>)))

number_of_double_documents(self) ==
    LET count(x, y, z) ==
            (IF Len(x) > 0 THEN Len(x) - 1 ELSE 0)
            + (IF Len(y) > 0 THEN Len(y) - 1 ELSE 0)
            + (IF Len(z) > 0 THEN Len(z) - 1 ELSE 0)
    IN  count(Select(self.pq, LAMBDA el : IsTag(el, <<"h","t","m","l">>)),
              Select(self.pq, LAMBDA el : IsTag(el, <<"b","o","d","y">>)),
              Select(self.pq, LAMBDA el : IsTag(el, <<"h","e","a","d">>)))

\* average_script_length without its test for l > 0
average_script_length_unguarded(self) ==
    LET round(d) == IF d.exc # "none" THEN d ELSE Ok(Round3(d.val[1], d.val[2]))
        mean(scripts, l) == round(PyDiv(PySum(scripts), l))
        lens(sel) ==
            mean([k \in 1..Len(sel) |-> Len(extract_text(self.pq, sel[k]))], Len(sel))
    IN  lens(Scripts(self))

average_script_length(self) ==
    LET round(d) == IF d.exc # "none" THEN d ELSE Ok(Round3(d.val[1], d.val[2]))
        mean(scripts, l) == IF l > 0 THEN round(PyDiv(PySum(scripts), l)) ELSE Ok(0)
        lens(sel) ==
            mean([k \in 1..Len(sel) |-> Len(extract_text(self.pq, sel[k]))], Len(sel))
    IN  lens(Scripts(self))

average_script_entropy(self) ==
    LET round(d) == IF d.exc # "none" THEN d ELSE Ok(RoundDiv(d.val[1], d.val[2]))
        mean(scripts, l) ==
            IF \E k \in 1..l : scripts[k].exc # "none"
            THEN Raise("ZeroDivisionError")
            ELSE IF l > 0
            THEN round(PyDiv(PySum([k \in 1..l |-> scripts[k].val]), l))
            ELSE Ok(0)
        entropies(sel) ==
            mean([k \in 1..Len(sel) |-> get_entropy(extract_text(self.pq, sel[k]))],
                 Len(sel))
    IN  entropies(Scripts(self))

\* number_of_suspicious_functions with str.count() for the in operator
number_of_suspicious_functions_counted(self) ==
    LET susf(script_content) ==
            [k \in 1..Len(self.suspicious_functions) |->
               Cardinality({i \in 0..Len(script_content) :
                              OccursAt(script_content, self.suspicious_functions[k], i)})]
        total(script_content) == PySum(susf(script_content))
    IN  total(lower(SelText(self.pq, Scripts(self))))

number_of_suspicious_functions(self) ==
    LET susf(script_content) ==
            [k \in 1..Len(self.suspicious_functions) |->
               IF Contains(script_content, self.suspicious_functions[k])
               THEN 1 ELSE 0]
        total(script_content) == PySum(susf(script_content))
    IN  total(lower(SelText(self.pq, Scripts(self))))

\* re.split(r'\s+|\W', s): a separator is a whole run of whitespace, or
\* else one character that is not a word character; the pieces are what
\* lies between the separators, the empty pieces too
re_split_words(s) ==
    LET ws       == {i \in 1..Len(s) : s[i] \in HtmlWhitespace}
        pieces(first, last) ==
            [k \in 1..(Len(first) + 1) |->
               SubSeq(s, IF k = 1 THEN 1 ELSE last[k - 1] + 1,
                         IF k = Len(first) + 1 THEN Len(s) ELSE first[k] - 1)]
        seps(W, non) ==
            pieces(Sorted(non \cup {i \in W : i - 1 \notin W}),
                   Sorted(non \cup {i \in W : i + 1 \notin W}))
    IN  seps(ws, {i \in 1..Len(s) : s[i] \notin WordChars} \ ws)

Keywords ==
    { <<"v","a","r">>, <<"c","o","n","s","t">>, <<"l","e","t">>, <<"f","o","r">>, <<"w","h","i","l","e">>, <<"i","f">>, <<"r","e","t","u","r","n">> }

keywords_to_words_ratio(self) ==
    LET round(d) == IF d.exc # "none" THEN d ELSE Ok(Round3(d.val[1], d.val[2]))
        ratio(kw, t) == IF t > 0 THEN round(PyDiv(kw, t)) ELSE Ok(0)
        \* the words that are neither None nor ''
        counted(real) ==
            ratio(Len(SelectSeq(real, LAMBDA word : word \in Keywords)), Len(real))
        split(words) == counted(SelectSeq(words, LAMBDA word : word # <<>>))
    IN  split(re_split_words(SelText(self.pq, Scripts(self))))

\* the names of regex_dom_functions; each pattern is the name, \s*, "("
DomFunctions ==
    << <<"c","r","e","a","t","e","E","l","e","m","e","n","t">>, <<"a","p","p","e","n","d","C","h","i","l","d">>, <<"r","e","m","o","v","e","C","h","i","l","d">>, <<"r","e","p","l","a","c","e","C","h","i","l","d">>,
       <<"i","n","s","e","r","t","B","e","f","o","r","e">>, <<"g","e","t","E","l","e","m","e","n","t","s","B","y","C","l","a","s","s","N","a","m","e">>, <<"g","e","t","E","l","e","m","e","n","t","s","B","y","T","a","g","N","a","m","e">>,
       <<"g","e","t","E","l","e","m","e","n","t","B","y","I","d">>, <<"q","u","e","r","y","S","e","l","e","c","t","o","r">>, <<"q","u","e","r","y","S","e","l","e","c","t","o","r","A","l","l">>,
       <<"s","e","t","A","t","t","r","i","b","u","t","e">>, <<"g","e","t","A","t","t","r","i","b","u","t","e">>, <<"r","e","m","o","v","e","A","t","t","r","i","b","u","t","e">>,
       <<"c","l","e","a","r","A","t","t","r","i","b","u","t","e","s">>, <<"i","n","s","e","r","t","A","d","j","a","c","e","n","t","E","l","e","m","e","n","t">>, <<"r","e","p","l","a","c","e","N","o","d","e">> >>

\* whether \s*\( matches s at 0-based index i
RECURSIVE ws_then_paren(_, _)
ws_then_paren(s, i) ==
    /\ i < Len(s)
    /\ \/ s[i + 1] = "("
       \/ s[i + 1] \in HtmlWhitespace /\ ws_then_paren(s, i + 1)

\* len(re.findall(name\s*\(, s)): two matches of one pattern cannot overlap
findall_call(name, s) ==
    Cardinality({i \in 0..Len(s) :
                   OccursAt(s, name, i) /\ ws_then_paren(s, i + Len(name))})

number_of_dom_modifying_functions(self) ==
    LET count(text, functions) ==
            PySum([k \in 1..Len(functions) |-> findall_call(functions[k], text)])
    IN  count(SelText(self.pq, Scripts(self)), DomFunctions)

\* only src/ANALYSIS/HTMLFeatures.py has it
has_right_click_disabled(self) ==
    Contains(lower(RawChars(self.html)), <<"e","v","e","n","t",".","b","u","t","t","o","n","=","=","2">>)

\* the accessors both revisions define
HTMLCommonAccessors ==
    {"page_entropy", "number_of_script_tags", "length_of_html",
     "number_of_page_tokens", "number_of_sentences", "number_of_punctuations",
     "number_of_capitalizations", "average_number_of_tokens_in_sentence",
     "number_of_html_tags", "number_of_hidden_tags", "number_iframes",
     "number_objects", "number_embeds", "number_of_internal_hyperlinks",
     "number_of_external_hyperlinks", "number_of_whitespace",
     "number_of_included_elements", "number_of_double_documents",
     "average_script_length", "average_script_entropy",
     "number_of_suspicious_functions", "keywords_to_words_ratio",
     "number_of_dom_modifying_functions"}

HTMLAccessors(rev) ==
    IF rev = "features" THEN HTMLCommonAccessors
    ELSE HTMLCommonAccessors \cup {"has_right_click_disabled"}

\* self.<acc>(): [exc, val]
HTMLCall(self, acc) ==
    CASE acc = "page_entropy"                  -> page_entropy(self)
      [] acc = "number_of_script_tags"         -> Ok(number_of_script_tags(self))
      [] acc = "length_of_html"                -> Ok(length_of_html(self))
      [] acc = "number_of_page_tokens"         -> Ok(number_of_page_tokens(self))
      [] acc = "number_of_sentences"           -> Ok(number_of_sentences(self))
      [] acc = "number_of_punctuations"        -> Ok(number_of_punctuations(self))
      [] acc = "number_of_capitalizations"     -> Ok(number_of_capitalizations(self))
      [] acc = "average_number_of_tokens_in_sentence"
                                               -> average_number_of_tokens_in_sentence(self)
      [] acc = "number_of_html_tags"           -> Ok(number_of_html_tags(self))
      [] acc = "number_of_hidden_tags"         -> Ok(number_of_hidden_tags(self))
      [] acc = "number_iframes"                -> Ok(number_iframes(self))
      [] acc = "number_objects"                -> Ok(number_objects(self))
      [] acc = "number_embeds"                 -> Ok(number_embeds(self))
      [] acc = "number_of_internal_hyperlinks" -> Ok(number_of_internal_hyperlinks(self))
      [] acc = "number_of_external_hyperlinks" -> Ok(number_of_external_hyperlinks(self))
      [] acc = "number_of_whitespace"          -> Ok(number_of_whitespace(self))
      [] acc = "number_of_included_elements"   -> Ok(number_of_included_elements(self))
      [] acc = "number_of_double_documents"    -> Ok(number_of_double_documents(self))
      [] acc = "average_script_length"         -> average_script_length(self)
      [] acc = "average_script_entropy"        -> average_script_entropy(self)
      [] acc = "number_of_suspicious_functions"
                                               -> Ok(number_of_suspicious_functions(self))
      [] acc = "keywords_to_words_ratio"       -> keywords_to_words_ratio(self)
      [] acc = "number_of_dom_modifying_functions"
                                               -> Ok(number_of_dom_modifying_functions(self))
      [] acc = "has_right_click_disabled"      -> Ok(has_right_click_disabled(self))

\* the dict literal with the accessor of its last row copied from the row before it
HTMLFeatureTableCopied ==
    << <<"suspicious_func_num", "number_of_suspicious_functions">>,
       <<"page_entropy", "page_entropy">>,
       <<"script_tags_num", "number_of_script_tags">>,
       <<"html_length", "length_of_html">>,
       <<"tokens_num", "number_of_page_tokens">>,
       <<"sentences_num", "number_of_sentences">>,
       <<"punctuation_num", "number_of_punctuations">>,
       <<"capitalization_num", "number_of_capitalizations">>,
       <<"avg_sentence_tokens_num", "average_number_of_tokens_in_sentence">>,
       <<"html_tags_num", "number_of_html_tags">>,
       <<"hidden_tags_num", "number_of_hidden_tags">>,
       <<"iframe_num", "number_iframes">>,
       <<"objects_num", "number_objects">>,
       <<"embeds_num", "number_embeds">>,
       <<"internal_links_num", "number_of_internal_hyperlinks">>,
       <<"external_links_num", "number_of_external_hyperlinks">>,
       <<"whitespaces_num", "number_of_whitespace">>,
       <<"included_elements_num", "number_of_included_elements">>,
       <<"double_doc_num", "number_of_double_documents">>,
       <<"keywords_to_words_ratio", "keywords_to_words_ratio">>,
       <<"dom_mod_func_num", "number_of_dom_modifying_functions">>,
       <<"avg_script_len", "average_script_length">>,
       <<"avg_script_entropy", "average_script_length">> >>

\* the dict literal of HTMLFeatures.get_features, in source order:
\* <<key, accessor>>
HTMLFeatureTable ==
    << <<"suspicious_func_num", "number_of_suspicious_functions">>,
       <<"page_entropy", "page_entropy">>,
       <<"script_tags_num", "number_of_script_tags">>,
       <<"html_length", "length_of_html">>,
       <<"tokens_num", "number_of_page_tokens">>,
       <<"sentences_num", "number_of_sentences">>,
       <<"punctuation_num", "number_of_punctuations">>,
       <<"capitalization_num", "number_of_capitalizations">>,
       <<"avg_sentence_tokens_num", "average_number_of_tokens_in_sentence">>,
       <<"html_tags_num", "number_of_html_tags">>,
       <<"hidden_tags_num", "number_of_hidden_tags">>,
       <<"iframe_num", "number_iframes">>,
       <<"objects_num", "number_objects">>,
       <<"embeds_num", "number_embeds">>,
       <<"internal_links_num", "number_of_internal_hyperlinks">>,
       <<"external_links_num", "number_of_external_hyperlinks">>,
       <<"whitespaces_num", "number_of_whitespace">>,
       <<"included_elements_num", "number_of_included_elements">>,
       <<"double_doc_num", "number_of_double_documents">>,
       <<"keywords_to_words_ratio", "keywords_to_words_ratio">>,
       <<"dom_mod_func_num", "number_of_dom_modifying_functions">>,
       <<"avg_script_len", "average_script_length">>,
       <<"avg_script_entropy", "average_script_entropy">> >>

---------------------------------------------------------------------------
(* The documents the model builds extractors on: a root element with up to *)
(* MaxChildren child elements, or character data with no markup at all.    *)

Element(tag, attrs, text) == [tag |-> tag, attrs |-> attrs, text |-> text]

RootElements ==
    { Element(<<"h","t","m","l">>, <<>>, <<>>),
      Element(<<"d","i","v">>, <<>>, <<"H","i","."," ","A"," ","b">>),
      Element(<<"a">>, << <<<<"h","r","e","f">>, <<"h","t","t","p",":","/","/","x">>>> >>, <<>>) }

ScriptEval == Element(<<"s","c","r","i","p","t">>, <<>>, <<"e","v","a","l","(","a",")">>)

ScriptEmpty == Element(<<"s","c","r","i","p","t">>, <<>>, <<>>)

ChildElements ==
    { Element(<<"h","t","m","l">>, <<>>, <<>>),
      Element(<<"b","o","d","y">>, <<>>, <<"H","i","."," ","A"," ","b">>),
      Element(<<"h","e","a","d">>, <<>>, <<>>),
      ScriptEmpty,
      ScriptEval,
      Element(<<"s","c","r","i","p","t">>, << <<<<"s","r","c">>, <<"s">>>> >>,
              <<"v","a","r"," ","a"," ","="," ","e","v","a","l","(","e","v","a","l","(","b",")",")",";"," ","a",".","a","p","p","e","n","d","C","h","i","l","d"," ","(","d",".","i","n","n","e","r","H","T","M","L",")">>),
      Element(<<"d","i","v">>, << <<<<"c","l","a","s","s">>, <<"x"," ","h","i","d","d","e","n">>>>, <<<<"i","d">>, <<"h","i","d","d","e","n">>>>,
                         <<<<"d","i","s","p","l","a","y">>, <<"n","o","n","e">>>> >>, <<"e","v","e","n","t",".","b","u","t","t","o","n","=","=","2">>),
      Element(<<"a">>, << <<<<"h","r","e","f">>, <<"/","x">>>>, <<<<"v","i","s","i","b","i","l","i","t","y">>, <<"n","o","n","e">>>> >>,
              <<"A",".","b">>),
      Element(<<"i","f","r","a","m","e">>, << <<<<"s","r","c">>, <<>> >> >>, <<>>),
      Element(<<"o","b","j","e","c","t">>, << <<<<"s","r","c">>, <<"o">>>> >>, <<>>) }

\* the tokens of one element around the tokens inside it
ElementToks(e, inside) ==
    <<OpenTok(e.tag, e.attrs)>>
    \o (IF e.text # <<>> THEN <<TextTok(e.text)>> ELSE <<>>)
    \o inside
    \o <<CloseTok(e.tag)>>

DocToks(root, kids) ==
    ElementToks(root, Concat([k \in 1..Len(kids) |-> ElementToks(kids[k], <<>>)]))

EmptyHtml == <<>>

BlankHtml == <<TextTok(<<" ">>)>>

BareTextHtml == <<TextTok(<<"H","i","."," ","A"," ","b">>)>>

\* the last is the page <script>eval(x)</script> of the spec's section 8
HtmlInputs ==
    { EmptyHtml, BlankHtml, BareTextHtml,
      ElementToks(Element(<<"s","c","r","i","p","t">>, <<>>, <<"e","v","a","l","(","x",")">>), <<>>) } \cup
    { DocToks(root, kids) :
        root \in RootElements, kids \in SeqsUpTo(ChildElements, MaxChildren) }

---------------------------------------------------------------------------
(* The HTMLFeatures instance and its callers.                              *)

HSelf == [html |-> html, pq |-> pq, suspicious_functions |-> suspicious_functions]

\* What a call of accessor acc leaves in self: no accessor of HTMLFeatures
\* assigns to an attribute of self, and the PyQuery calls they make
\* (__call__, find, +, items, text, attr as a getter) build new selections.
HTMLAfterCall(self, acc) == self

\* HTMLFeatures.get_features(): the accessors are called in the order of the
\* dict literal; the first that raises ends the call.  calls[a] counts the
\* invocations of accessor a.
HTMLFeatures_get_features(self) ==
    LET result(T, rets, bad, upto, accessors) ==
            [ op    |-> "get_features",
              exc   |-> IF bad = {} THEN "none" ELSE rets[upto].exc,
              val   |-> IF bad = {} THEN [k \in 1..Len(T) |-> <<T[k][1], rets[k].val>>]
                        ELSE <<>>,
              calls |-> [a \in accessors |->
                           Cardinality({k \in 1..upto : T[k][2] = a})] ]
        raised(T, rets, bad) ==
            result(T, rets, bad, IF bad = {} THEN Len(T) ELSE SetMin(bad),
                   HTMLAccessors("analysis"))
        called(T, rets) == raised(T, rets, {k \in 1..Len(T) : rets[k].exc # "none"})
        dict(T) == called(T, [k \in 1..Len(T) |-> HTMLCall(self, T[k][2])])
    IN  dict(HTMLFeatureTable)

HInit ==
    /\ hpc = "new"
    /\ hrev = "features"
    /\ html = <<>>
    /\ pq = <<>>
    /\ suspicious_functions = <<>>
    /\ hret = NoRet

\* HTMLFeatures(h), from either revision; PyQuery may raise, and then no
\* instance exists.  A run builds one extractor.
HConstruct ==
    /\ hpc = "new"
    /\ upc = "new"
    /\ \E rev \in Revisions, h \in HtmlInputs :
          LET built(r) ==
                  /\ hrev' = rev
                  /\ html' = h
                  /\ IF r.exc = "none"
                     THEN /\ hpc' = "ready"
                          /\ pq' = r.val.pq
                          /\ suspicious_functions' = r.val.suspicious_functions
                          /\ hret' = NoRet
                     ELSE /\ hpc' = "raised"
                          /\ pq' = <<>>
                          /\ suspicious_functions' = <<>>
                          /\ hret' = [op |-> "__init__", exc |-> r.exc, val |-> 0]
          IN  built(HTMLFeatures_init(h))
    /\ UNCHANGED uvars

\* self.<acc>() for one accessor of the instance's revision
HAccessor ==
    /\ hpc = "ready"
    /\ hret.op = "none"
    /\ \E acc \in HTMLAccessors(hrev) :
          LET done(r, after) ==
                  /\ hret' = [op |-> acc, exc |-> r.exc, val |-> r.val]
                  /\ html' = after.html
                  /\ pq' = after.pq
                  /\ suspicious_functions' = after.suspicious_functions
          IN  done(HTMLCall(HSelf, acc), HTMLAfterCall(HSelf, acc))
    /\ UNCHANGED <<hpc, hrev>>
    /\ UNCHANGED uvars

\* self.get_features(); only src/features.py defines it
HGetFeatures ==
    /\ hpc = "ready"
    /\ hrev = "features"
    /\ hret.op = "none"
    /\ hret' = HTMLFeatures_get_features(HSelf)
    /\ UNCHANGED <<hpc, hrev, html, pq, suspicious_functions>>
    /\ UNCHANGED uvars

\* the caller takes the returned value; the instance is ready for the next call
HReturn ==
    /\ hpc = "ready"
    /\ hret.op # "none"
    /\ hret' = NoRet
    /\ UNCHANGED <<hpc, hrev, html, pq, suspicious_functions>>
    /\ UNCHANGED uvars

HNext == HConstruct \/ HAccessor \/ HGetFeatures \/ HReturn

Init == HInit /\ UInit

Next == HNext \/ UNext

\* one HTMLFeatures instance and the calls made on it
HTMLSpec == Init /\ [][HNext]_vars

\* one URLFeatures instance and the calls made on it
URLSpec == Init /\ [][UNext]_vars

\* one extractor of either class and the calls made on it
Spec == Init /\ [][Next]_vars

---------------------------------------------------------------------------
(* The feature maps.                                                       *)

\* the keys of the map a get_features() call returned, in order
HTMLKeys == [k \in 1..Len(hret.val) |-> hret.val[k][1]]
URLKeys == [k \in 1..Len(uret.val) |-> uret.val[k][1]]

\* the order of the keys of HTMLFeatures.get_features()
HTMLKeyOrder ==
    << "suspicious_func_num", "page_entropy", "script_tags_num", "html_length",
       "tokens_num", "sentences_num", "punctuation_num", "capitalization_num",
       "avg_sentence_tokens_num", "html_tags_num", "hidden_tags_num",
       "iframe_num", "objects_num", "embeds_num", "internal_links_num",
       "external_links_num", "whitespaces_num", "included_elements_num",
       "double_doc_num", "keywords_to_words_ratio", "dom_mod_func_num",
       "avg_script_len", "avg_script_entropy" >>

\* the feature each key stands for, by the groups of section 4.2
TextStatistics ==
    [ page_entropy            |-> "page_entropy",
      html_length             |-> "length_of_html",
      tokens_num              |-> "number_of_page_tokens",
      sentences_num           |-> "number_of_sentences",
      avg_sentence_tokens_num |-> "average_number_of_tokens_in_sentence",
      punctuation_num         |-> "number_of_punctuations",
      capitalization_num      |-> "number_of_capitalizations",
      whitespaces_num         |-> "number_of_whitespace" ]

StructuralCounts ==
    [ html_tags_num         |-> "number_of_html_tags",
      script_tags_num       |-> "number_of_script_tags",
      hidden_tags_num       |-> "number_of_hidden_tags",
      iframe_num            |-> "number_iframes",
      objects_num           |-> "number_objects",
      embeds_num            |-> "number_embeds",
      internal_links_num    |-> "number_of_internal_hyperlinks",
      external_links_num    |-> "number_of_external_hyperlinks",
      included_elements_num |-> "number_of_included_elements",
      double_doc_num        |-> "number_of_double_documents" ]

ScriptContent ==
    [ avg_script_len          |-> "average_script_length",
      avg_script_entropy      |-> "average_script_entropy",
      suspicious_func_num     |-> "number_of_suspicious_functions",
      keywords_to_words_ratio |-> "keywords_to_words_ratio",
      dom_mod_func_num        |-> "number_of_dom_modifying_functions" ]

HTMLKeyFeature == TextStatistics @@ StructuralCounts @@ ScriptContent

\* the features section 4.2 enumerates: the three groups and the flag
HTMLEnumerated ==
    {HTMLKeyFeature[k] : k \in DOMAIN HTMLKeyFeature} \cup {"has_right_click_disabled"}

\* C1, as amended: on every constructed instance get_features() returns a
\* map with exactly 23 keys in one fixed order, one key for each of the 8
\* text statistics, the 10 structural counts and the 5 script-content
\* features, each holding the value of its accessor, and each of these 23
\* accessors is invoked exactly once per call; the map has no key for the
\* right-click-disabled flag, whose accessor get_features() never invokes.
C1_FeatureMapHas23Keys ==
    hret.op = "get_features" =>
       /\ hret.exc = "none"
       /\ Len(hret.val) = 23
       /\ HTMLKeys = HTMLKeyOrder
       /\ Cardinality(DOMAIN TextStatistics) = 8
       /\ Cardinality(DOMAIN StructuralCounts) = 10
       /\ Cardinality(DOMAIN ScriptContent) = 5
       /\ {HTMLKeys[k] : k \in 1..Len(HTMLKeys)} = DOMAIN HTMLKeyFeature
       /\ \A k \in 1..Len(hret.val) :
             hret.val[k][2] = HTMLCall(HSelf, HTMLKeyFeature[hret.val[k][1]]).val
       /\ \A k \in DOMAIN HTMLKeyFeature : hret.calls[HTMLKeyFeature[k]] = 1
       /\ hret.calls["has_right_click_disabled"] = 0

\* a map returned for a document that disables the right click
C1_Witness ==
    /\ hret.op = "get_features"
    /\ hret.exc = "none"
    /\ has_right_click_disabled(HSelf)

\* C1 as the specification states it: 23 keys, and one key for each of the
\* features section 4.2 enumerates, the right-click-disabled flag among
\* them, each accessor invoked exactly once
C1_KeyForEveryEnumeratedFeature ==
    hret.op = "get_features" =>
       /\ Len(hret.val) = 23
       /\ \A f \in HTMLEnumerated : hret.calls[f] = 1

\* the order of the keys of URLFeatures.get_features()
URLKeyOrder ==
    << "use_shortening_service", "prefix_suffix_presence", "has_double_slash",
       "has_haveat_sign", "has_port", "has_admin_keyword", "has_server_keyword",
       "has_login_keyword", "has_client_keyword", "host_is_ip", "is_encoded",
       "length", "path_length", "host_length", "entropy", "digits_num",
       "subdirectories_num", "periods_num", "params_num" >>

\* the feature each key stands for, by the groups of section 4.3
SizeShape ==
    [ length             |-> "length",
      path_length        |-> "path_length",
      host_length        |-> "host_length",
      subdirectories_num |-> "number_of_subdirectories",
      digits_num         |-> "number_of_digits",
      periods_num        |-> "number_of_periods",
      params_num         |-> "number_of_parameters",
      entropy            |-> "entropy" ]

BooleanSignals ==
    [ host_is_ip             |-> "host_is_ip",
      has_port               |-> "has_port",
      is_encoded             |-> "is_encoded",
      use_shortening_service |-> "use_shortening_services",
      prefix_suffix_presence |-> "prefix_suffix_presence",
      has_double_slash       |-> "has_double_slash_in_wrong_position",
      has_haveat_sign        |-> "has_haveat_sign",
      has_client_keyword     |-> "has_client_in_string",
      has_admin_keyword      |-> "has_admin_in_string",
      has_server_keyword     |-> "has_server_in_string",
      has_login_keyword      |-> "has_login_in_string" ]

URLKeyFeature == SizeShape @@ BooleanSignals

\* the features section 4.3 enumerates: the two groups and the
\* encoded-character count
URLEnumerated ==
    {URLKeyFeature[k] : k \in DOMAIN URLKeyFeature} \cup {"num_encoded_char"}

\* C2, as amended: get_features() returns a map with exactly 19 keys in one
\* fixed order, one key for each of 8 size/shape features (length, path
\* length, host length, subdirectories, digits, periods, parameters, entropy)
\* and of the 11 boolean signals, each holding the value of its accessor; the
\* map has no key for the encoded-character count, whose accessor
\* get_features() never invokes.
C2_FeatureMapHas19Keys ==
    uret.op = "get_features" =>
       /\ uret.exc = "none"
       /\ Len(uret.val) = 19
       /\ URLKeys = URLKeyOrder
       /\ Cardinality(DOMAIN SizeShape) = 8
       /\ Cardinality(DOMAIN BooleanSignals) = 11
       /\ {URLKeys[k] : k \in 1..Len(URLKeys)} = DOMAIN URLKeyFeature
       /\ \A k \in 1..Len(uret.val) :
             uret.val[k][2] = URLCall(USelf, URLKeyFeature[uret.val[k][1]]).val
       /\ \A k \in DOMAIN URLKeyFeature : uret.calls[URLKeyFeature[k]] = 1
       /\ uret.calls["num_encoded_char"] = 0

\* a map returned for a URL with an encoded character in it
C2_Witness ==
    /\ uret.op = "get_features"
    /\ uret.exc = "none"
    /\ num_encoded_char(USelf) > 0

\* C2 as the specification states it: 19 keys, and one key for each of the
\* features section 4.3 enumerates, the encoded-character count among them
C2_KeyForEveryEnumeratedFeature ==
    uret.op = "get_features" =>
       /\ Len(uret.val) = 19
       /\ \A f \in URLEnumerated : uret.calls[f] = 1

---------------------------------------------------------------------------
(* Purity.                                                                 *)

\* what a call op returns on an instance newly built from the input h
HTMLFresh(h, op) ==
    LET call(self) ==
            IF op = "get_features" THEN HTMLFeatures_get_features(self)
            ELSE LET ret(r) == [op |-> op, exc |-> r.exc, val |-> r.val]
                 IN  ret(HTMLCall(self, op))
    IN  call(HTMLFeatures_init(h).val)

URLFresh(rev, u, op) ==
    LET call(self) ==
            IF op = "get_features" THEN URLFeatures_get_features(self)
            ELSE LET ret(r) == [op |-> op, exc |-> r.exc, val |-> r.val]
                 IN  ret(URLCall(self, op))
    IN  call(URLFeatures_init(rev, u))

\* every value a call returns is the value a second instance, built from the
\* same input, returns for that call
C3_SameAsSecondInstance ==
    /\ hpc = "ready" /\ hret.op # "none" => hret = HTMLFresh(html, hret.op)
    /\ upc = "ready" /\ uret.op # "none" => uret = URLFresh(urev, url, uret.op)

\* no step of a constructed instance changes what it stores
C3_StoredStateKept ==
    /\ hpc = "ready" => UNCHANGED <<html, pq, suspicious_functions>>
    /\ upc = "ready" => UNCHANGED <<url, urlparsed, shortening_services>>

\* C3: after construction, accessor and get_features() calls in any order
\* and number leave the raw input, the parsed document or URL, the
\* suspicious-function list and the shortener pattern unchanged, and every
\* call returns what a second instance built from the same input returns.
C3_Purity == [][C3_StoredStateKept]_vars /\ []C3_SameAsSecondInstance

\* a keyword accessor has returned on a URL with capital letters in it
C3_Witness ==
    /\ upc = "ready"
    /\ uret.op = "has_login_in_string"
    /\ uret.val = TRUE
    /\ url # lower(url)

---------------------------------------------------------------------------
(* The accessors of HTMLFeatures.                                          *)

CountTag(tag) == Cardinality({i \in 1..Len(pq) : pq[i].tag = tag})

Averages ==
    {"average_number_of_tokens_in_sentence", "average_script_length",
     "average_script_entropy", "keywords_to_words_ratio"}

\* C4: no call raises ZeroDivisionError; the four averages return a number,
\* and average_script_length and average_script_entropy return 0 for a
\* document with no script element.
C4_NoDivisionByZero ==
    /\ hret.exc # "ZeroDivisionError"
    /\ hret.op \in Averages =>
          /\ hret.exc = "none"
          /\ hret.val \in Nat
    /\ hret.op \in {"average_script_length", "average_script_entropy"}
       /\ CountTag(Script) = 0 => hret.val = 0

\* average_script_length has returned for a document with no script element
C4_Witness ==
    /\ hret.op = "average_script_length"
    /\ CountTag(Script) = 0
    /\ hret.val = 0

StructuralCountKeys == DOMAIN StructuralCounts

\* C5 as the specification states it: building HTMLFeatures on HTML with no
\* structure in it does not fail, get_features() returns, and every
\* structural count of the map is 0.
C5_EmptyHtmlIsNoError ==
    /\ hpc # "new" /\ html \in {EmptyHtml, BlankHtml} => hpc = "ready"
    /\ hret.op = "get_features" /\ html \in {EmptyHtml, BlankHtml} =>
          /\ hret.exc = "none"
          /\ \A k \in 1..Len(hret.val) :
                hret.val[k][1] \in StructuralCountKeys => hret.val[k][2] = 0

\* C7: number_of_double_documents() is the sum, over html, body and head, of
\* max(0, count - 1) for the count of elements of that type; it is never
\* negative, 0 when each type appears at most once, and 1 for two html
\* elements, one body and at most one head.
C7_DoubleDocuments ==
    hret.op = "number_of_double_documents" =>
       LET extra(n) == IF n > 1 THEN n - 1 ELSE 0
           counts(h, b, d) ==
               /\ hret.val = extra(h) + extra(b) + extra(d)
               /\ hret.val >= 0
               /\ h <= 1 /\ b <= 1 /\ d <= 1 => hret.val = 0
               /\ h = 2 /\ b = 1 /\ d <= 1 => hret.val = 1
       IN  counts(CountTag(<<"h","t","m","l">>), CountTag(<<"b","o","d","y">>), CountTag(<<"h","e","a","d">>))

\* the count returned for two html elements and one body
C7_Witness ==
    /\ hret.op = "number_of_double_documents"
    /\ CountTag(<<"h","t","m","l">>) = 2
    /\ CountTag(<<"b","o","d","y">>) = 1
    /\ hret.val = 1

---------------------------------------------------------------------------
(* The accessors of URLFeatures.                                           *)

HostFeatures == {"host_length", "host_is_ip", "has_port", "prefix_suffix_presence"}

HttpPrefix == <<"h","t","t","p",":","/","/">>

\* whether u starts with a scheme and "://"
ExplicitScheme(u) ==
    \E i \in 1..Len(u) :
       /\ OccursAt(u, <<":","/","/">>, i)
       /\ \A k \in 1..i : isalpha(u[k])

\* C6 as the specification states it: for a URL with no scheme the host
\* features are those of the same URL prefixed with "http://", and the
\* parsed host is populated.
C6_SchemelessAsHttp ==
    upc = "ready" /\ ~ExplicitScheme(url) /\ uret.op \in HostFeatures =>
       uret.val = URLFresh(urev, HttpPrefix \o url, uret.op).val

\* C8: has_double_slash_in_wrong_position() (has_redirection in the ANALYSIS
\* revision) is true iff "//" occurs in the raw URL at an index greater than
\* 7; it is true for http://a.com//b and false for http://a.com/b.
C8_DoubleSlash ==
    uret.op \in {"has_double_slash_in_wrong_position", "has_redirection"} =>
       /\ uret.val = (\E i \in 8..Len(url) : OccursAt(url, <<"/", "/">>, i))
       /\ url = ExampleHttpADoubleSlash => uret.val = TRUE
       /\ url = ExampleHttpA => uret.val = FALSE

\* the flag returned for http://a.com//b
C8_Witness ==
    /\ uret.op = "has_double_slash_in_wrong_position"
    /\ url = ExampleHttpADoubleSlash
    /\ uret.val = TRUE

\* four groups of 1 to 3 digits with a "." between them, and nothing else
DottedQuad(s) ==
    LET groups(g) ==
            /\ Len(g) = 4
            /\ \A k \in 1..4 :
                  /\ Len(g[k]) \in 1..3
                  /\ \A j \in 1..Len(g[k]) : g[k][j] \in Digits
    IN  groups(PySplit(s, "."))

\* C9: host_is_ip() is true iff the parsed network location is four
\* dot-separated groups of 1 to 3 decimal digits and nothing else; it is true
\* for http://192.168.0.1/ and false for http://example.com/.
C9_HostIsIp ==
    uret.op = "host_is_ip" =>
       /\ uret.val = DottedQuad(urlparsed.netloc)
       /\ url = ExampleIp => uret.val = TRUE
       /\ url = ExampleHost => uret.val = FALSE

\* the flag returned for http://192.168.0.1/
C9_Witness ==
    /\ uret.op = "host_is_ip"
    /\ url = ExampleIp
    /\ uret.val = TRUE

\* C10: number_of_parameters() is 0 for an empty parsed query and else the
\* number of "&" in the query plus one; it is 2 for http://x.com/a?x=1&y=2.
C10_Parameters ==
    uret.op = "number_of_parameters" =>
       /\ uret.val = IF urlparsed.query = <<>> THEN 0
                     ELSE Count(urlparsed.query, "&") + 1
       /\ url = ExampleQuery => uret.val = 2

\* the count returned for http://x.com/a?x=1&y=2
C10_Witness ==
    /\ uret.op = "number_of_parameters"
    /\ url = ExampleQuery
    /\ uret.val = 2

---------------------------------------------------------------------------
(* The script accessors of HTMLFeatures.                                   *)

SuspiciousSubstrings ==
    { <<"e","v","a","l">>, <<"u","n","e","s","c","a","p","e">>, <<"d","o","c","u","m","e","n","t",".","w","r","i","t","e">>, <<"i","n","n","e","r","h","t","m","l">> }

\* the text of all script elements of the document, lowercased
LoweredScriptText == lower(SelText(pq, Scripts(HSelf)))

\* the page <script>eval(x)</script>
EvalPage == ElementToks(Element(<<"s","c","r","i","p","t">>, <<>>, <<"e","v","a","l","(","x",")">>), <<>>)

\* C11: number_of_suspicious_functions() is the number of the four substrings
\* eval, unescape, document.write, innerhtml that occur in the lowercased
\* text of all script elements, each counted once however often it occurs,
\* so it lies in 0..4; for the page whose only script is eval(x) it is at
\* least 1 and number_of_dom_modifying_functions() is 0.
C11_SuspiciousFunctions ==
    /\ hret.op = "number_of_suspicious_functions" =>
          /\ hret.exc = "none"
          /\ hret.val = Cardinality({f \in SuspiciousSubstrings :
                                       Contains(LoweredScriptText, f)})
          /\ hret.val \in 0..4
          /\ html = EvalPage => hret.val >= 1
    /\ hret.op = "number_of_dom_modifying_functions" /\ html = EvalPage =>
          hret.exc = "none" /\ hret.val = 0

\* the count returned for the page whose only script is eval(x)
C11_Witness ==
    /\ hret.op = "number_of_suspicious_functions"
    /\ html = EvalPage
    /\ hret.val = 1

---------------------------------------------------------------------------
(* The entropy of a text, as both extractors compute it.                   *)

\* the accessors that return the entropy of one text, and that text
URLEntropyAccessors == {"entropy", "url_entropy"}

\* what the entropy function gives for t and for its own case folding
EntropyOf(t, ret) ==
    /\ t # <<>> =>
          /\ ret.exc = "none"
          /\ ret.val >= 0
          /\ ret.val = get_entropy(t).val
          /\ ret.val = get_entropy(lower(t)).val

\* C12: for every non-empty text the entropy the extractors compute (on the
\* lowercased text, rounded to 3 decimals) is at least 0, and computing it
\* again on the same text gives the value the accessor returned; a mean of
\* such entropies is at least 0 too.
C12_Entropy ==
    /\ uret.op \in URLEntropyAccessors => EntropyOf(url, uret)
    /\ hret.op = "page_entropy" => EntropyOf(pq_text(pq), hret)
    /\ hret.op = "average_script_entropy" /\ hret.exc = "none" => hret.val >= 0

\* the entropy returned for HTTP://A.com/Login
C12_Witness ==
    /\ uret.op = "entropy"
    /\ url = ExampleUpper
    /\ uret.exc = "none"
    /\ uret.val > 0

---------------------------------------------------------------------------
(* The hidden elements of a document.                                      *)

\* how many of the four predicates (class hidden, id hidden, attribute
\* visibility="none", attribute display="none") element el matches
HiddenMatches(el) ==
    (IF HasClass(el, <<"h","i","d","d","e","n">>) THEN 1 ELSE 0)
    + (IF HasId(el, <<"h","i","d","d","e","n">>) THEN 1 ELSE 0)
    + (IF AttrEquals(el, <<"v","i","s","i","b","i","l","i","t","y">>, <<"n","o","n","e">>) THEN 1 ELSE 0)
    + (IF AttrEquals(el, <<"d","i","s","p","l","a","y">>, <<"n","o","n","e">>) THEN 1 ELSE 0)

\* the elements of the document that match at least one of the four
DistinctHidden == {i \in 1..Len(pq) : HiddenMatches(pq[i]) > 0}

\* C13: number_of_hidden_tags() is the sum of the sizes of the four match
\* sets, an element that matches k of the four predicates being counted k
\* times: it is at least the number of distinct matching elements and
\* exceeds it exactly when some element matches more than one predicate.
C13_HiddenTags ==
    hret.op = "number_of_hidden_tags" =>
       /\ hret.exc = "none"
       /\ hret.val = PySum([i \in 1..Len(pq) |-> HiddenMatches(pq[i])])
       /\ hret.val >= Cardinality(DistinctHidden)
       /\ (hret.val > Cardinality(DistinctHidden))
             <=> (\E i \in 1..Len(pq) : HiddenMatches(pq[i]) > 1)

\* the count returned for a document with one element that matches three
\* predicates and one that matches a single predicate
C13_Witness ==
    /\ hret.op = "number_of_hidden_tags"
    /\ \E i \in 1..Len(pq) : HiddenMatches(pq[i]) = 3
    /\ Cardinality(DistinctHidden) = 2
    /\ hret.val = 4

---------------------------------------------------------------------------
(* The two revisions of URLFeatures.                                       *)

OtherRevision(rev) == IF rev = "features" THEN "analysis" ELSE "features"

\* the name the other revision gives to accessor acc
Counterpart(acc) ==
    CASE acc = "length"          -> "url_length"
      [] acc = "url_length"      -> "length"
      [] acc = "is_encoded"      -> "url_is_encoded"
      [] acc = "url_is_encoded"  -> "is_encoded"
      [] acc = "entropy"         -> "url_entropy"
      [] acc = "url_entropy"     -> "entropy"
      [] acc = "has_double_slash_in_wrong_position" -> "has_redirection"
      [] acc = "has_redirection" -> "has_double_slash_in_wrong_position"
      [] OTHER                   -> acc

\* the accessors of revision rev that the other revision has too
SharedAccessors(rev) ==
    {acc \in URLAccessors(rev) : Counterpart(acc) \in URLAccessors(OtherRevision(rev))}

\* a.com/b;c
ParamsUrl == <<"a",".","c","o","m","/","b",";","c">>

\* C14: the two revisions of the URL extractor agree: on every URL, each
\* accessor that both src/features.py and src/ANALYSIS/URLFeatures.py have
\* returns in one what its counterpart returns in the other, though one
\* parses with urlparse(url) and the other with urlparse(url, 'http').
C14_RevisionsAgree ==
    upc = "ready" /\ uret.op \in SharedAccessors(urev) =>
       LET same(other) == uret.exc = other.exc /\ uret.val = other.val
       IN  same(URLFresh(OtherRevision(urev), url, Counterpart(uret.op)))

\* the path length returned for a.com/b;c by the revision that parses it
\* under no scheme
C14_Witness ==
    /\ urev = "features"
    /\ uret.op = "path_length"
    /\ url = ParamsUrl
    /\ urlparsed.scheme = <<>>
    /\ URLFeatures_init("analysis", url).urlparsed.scheme = <<"h","t","t","p">>
    /\ uret.val = 7

====
